---- MODULE Spec2Model ----
(***************************************************************************)
(* The NVCF agent of flytekitplugins.nvcf: create / get / delete of one    *)
(* remote task handle (NVCFMetadata) against the NGC SDK client, and the   *)
(* status-to-phase mapping.                                                *)
(*                                                                         *)
(* Python values: a string is a TLA+ string, None is NoneVal, a message    *)
(* built by an f-string is the sequence of its pieces, an exception is     *)
(* its type name and its message.                                          *)
(***************************************************************************)
EXTENDS Naturals, Sequences, FiniteSets

\* ------------------------------------------------------------------ bounds
\* polls counted per handle before the orchestrator stops polling
MaxPolls == 2
\* teardowns counted per handle before the orchestrator stops calling delete
MaxTeardowns == 2

\* ------------------------------------------------------------ Python values
NoneVal == "<None>"

\* `not x` for an Optional[str]
Falsy(x) == x = NoneVal \/ x = ""

\* -------------------------------------------------------- remote vocabulary
\* the statuses the agent names, by the branch of _map_status_to_phase
NonTerminalStatuses == {"QUEUED", "LAUNCHED", "RUNNING"}

FailedStatuses ==
    {"FAILED", "ERRORED", "EXCEEDED_MAX_RUNTIME_DURATION", "EXCEEDED_MAX_QUEUED_DURATION"}

KnownStatuses == NonTerminalStatuses \cup {"COMPLETED", "CANCELED"} \cup FailedStatuses

\* a status the agent does not name
UnknownStatuses == {"PENDING"}

\* the statuses the remote task takes here: of the four that take the FAILED
\* branch of the mapping, FAILED and ERRORED
RemoteStatuses ==
    NonTerminalStatuses \cup {"COMPLETED", "CANCELED", "FAILED", "ERRORED"} \cup UnknownStatuses

\* the strings the mapping is applied to: the remote statuses and the
\* lower-case spellings of tests/test_agent.py
MapInputs ==
    KnownStatuses \cup UnknownStatuses \cup {"queued", "launched", "running", "completed", "errored",
                         "exceeded_max_runtime_duration", "canceled", "unknown", ""}

\* the remote task does not exist (never created, or deleted)
Absent == "<absent>"

\* ------------------------------------------------------------------ phases
\* flyteidl TaskExecution.Phase names
Phases == {"UNDEFINED", "QUEUED", "RUNNING", "SUCCEEDED", "ABORTED", "FAILED", "INITIALIZING"}

\* variant of the mapping with CANCELED taken for a failure
_map_status_to_phase_canceled_failed(status) ==
    IF status = "QUEUED" THEN <<"QUEUED", 0>>
    ELSE IF status \in {"LAUNCHED", "RUNNING"} THEN <<"RUNNING", 0>>
    ELSE IF status = "COMPLETED" THEN <<"SUCCEEDED", 0>>
    ELSE IF status \in {"FAILED", "ERRORED", "EXCEEDED_MAX_RUNTIME_DURATION",
                        "EXCEEDED_MAX_QUEUED_DURATION", "CANCELED"} THEN <<"FAILED", 0>>
    ELSE <<"UNDEFINED", 0>>

\* variant of the mapping with phase versions 1 for LAUNCHED and 2 for RUNNING
_map_status_to_phase_ranked(status) ==
    IF status = "QUEUED" THEN <<"QUEUED", 0>>
    ELSE IF status = "LAUNCHED" THEN <<"RUNNING", 1>>
    ELSE IF status = "RUNNING" THEN <<"RUNNING", 2>>
    ELSE IF status = "COMPLETED" THEN <<"SUCCEEDED", 0>>
    ELSE IF status \in {"FAILED", "ERRORED", "EXCEEDED_MAX_RUNTIME_DURATION",
                        "EXCEEDED_MAX_QUEUED_DURATION"} THEN <<"FAILED", 0>>
    ELSE IF status = "CANCELED" THEN <<"ABORTED", 0>>
    ELSE <<"UNDEFINED", 0>>

\* NVCFAgent._map_status_to_phase: (phase, phase version)
_map_status_to_phase(status) ==
    IF status = "QUEUED" THEN <<"QUEUED", 0>>
    ELSE IF status \in {"LAUNCHED", "RUNNING"} THEN <<"RUNNING", 0>>
    ELSE IF status = "COMPLETED" THEN <<"SUCCEEDED", 0>>
    ELSE IF status \in {"FAILED", "ERRORED", "EXCEEDED_MAX_RUNTIME_DURATION",
                        "EXCEEDED_MAX_QUEUED_DURATION"} THEN <<"FAILED", 0>>
    ELSE IF status = "CANCELED" THEN <<"ABORTED", 0>>
    ELSE <<"UNDEFINED", 0>>

\* -------------------------------------------------------------- exceptions
\* what a call of the SDK client can raise: an empty / unparseable response
\* body (simplejson.errors.JSONDecodeError), a "not found" answer, a
\* transport failure
JSONDecodeError == [type |-> "JSONDecodeError", msg |-> "Expecting value"]

NotFoundError == [type |-> "NgcAPIError", msg |-> "404 task not found"]

TransportError == [type |-> "ConnectionError", msg |-> "connection reset"]

RemoteErrors == {JSONDecodeError, NotFoundError, TransportError}

NoError == [type |-> "", msg |-> ""]

\* str(e)
str(e) == e.msg

\* ---------------------------------------------------------------- metadata
DefaultBaseUrl == "https://api.nvct.nvidia.com/v1/nvct"

\* the dataclass NVCFMetadata with its defaults
NVCFMetadata(api_key, org_name, base_url, task_id, name, status, percent_complete, created_at) ==
    [api_key |-> api_key, org_name |-> org_name, base_url |-> base_url,
     task_id |-> task_id, name |-> name, status |-> status,
     percent_complete |-> percent_complete, created_at |-> created_at,
     last_updated_at |-> NoneVal]

\* variant of the repr as @dataclass would generate it: every field
NVCFMetadata_repr_dataclass(m) == m

\* NVCFMetadata.__repr__: the fields the text shows
NVCFMetadata_repr(m) ==
    [task_id |-> m.task_id, name |-> m.name, status |-> m.status,
     percent_complete |-> m.percent_complete]

\* no handle exists yet (nothing was submitted)
NoHandle == [api_key |-> NoneVal, org_name |-> NoneVal, base_url |-> NoneVal,
             task_id |-> NoneVal, name |-> NoneVal, status |-> NoneVal,
             percent_complete |-> NoneVal, created_at |-> NoneVal,
             last_updated_at |-> NoneVal]

\* the statuses of the handles built without a create: missing, the two of
\* tests/test_agent.py, a terminal one and one the agent does not name (a
\* handle that create returned carries any remote status)
RestoredStatuses == {NoneVal, "QUEUED", "RUNNING", "COMPLETED"} \cup UnknownStatuses

\* the handles the orchestrator can hand over without a create in this
\* process (NVCFMetadata(api_key=..., org_name=..., task_id=..., status=...)):
\* the task id may be missing or empty, the status missing
RestoredHandles ==
    { NVCFMetadata("test-api-key", "test-org", DefaultBaseUrl, tid, NoneVal, st, NoneVal, NoneVal) :
        tid \in {NoneVal, "", "test-task-id"}, st \in RestoredStatuses }

\* the gpuSpecification sub-record of nvcf_config: missing, complete, or
\* with only the gpu key
FullGpu == [gpu |-> "L40S", instanceType |-> "gl40s_1.br25_2xlarge", backend |-> "GFN"]

PartialGpu == [gpu |-> "L40S", instanceType |-> NoneVal, backend |-> NoneVal]

NoGpu == [gpu |-> NoneVal, instanceType |-> NoneVal, backend |-> NoneVal]

\* what an invocation was given, kept with its outcome: the task template
\* (task_template.custom) and the answer of the submit call of a create
NoTemplate ==
    [api_key |-> NoneVal, org_name |-> NoneVal, base_url |-> NoneVal,
     has_config |-> FALSE, name |-> NoneVal, gpuSpecification |-> NoGpu,
     maxRuntimeDuration |-> NoneVal, maxQueuedDuration |-> NoneVal,
     terminationGracePeriodDuration |-> NoneVal,
     resultHandlingStrategy |-> NoneVal, resultsLocation |-> NoneVal,
     secrets |-> NoneVal]

NoResponse == [id |-> NoneVal, status |-> NoneVal, createdAt |-> NoneVal]

\* the keyword arguments of nvcf_task / NVCFTaskConfig
NoArgs ==
    [name |-> NoneVal, container_image |-> NoneVal, gpu_specification |-> NoGpu,
     container_args |-> NoneVal, max_runtime_duration |-> NoneVal,
     max_queued_duration |-> NoneVal, termination_grace_period_duration |-> NoneVal,
     result_handling_strategy |-> NoneVal, results_location |-> NoneVal,
     api_key |-> NoneVal, org_name |-> NoneVal, base_url |-> NoneVal]

\* an invocation that was given none of these
NoInput == <<>>

\* outcome o of an invocation given arguments a, template t, answer resp
WithInput(o, a, t, resp) ==
    [o EXCEPT !.input = [args |-> a, template |-> t, response |-> resp]]

\* --------------------------------------------------------------- the state
VARIABLES
    meta,     \* the NVCFMetadata object the orchestrator holds (NoHandle: none)
    remote,   \* the status of the task in the remote service, or Absent
    calls,    \* what the last invocation did with the SDK, in order
    result,   \* what the last invocation returned or raised
    hist,     \* what happened to the handle so far
    agent,    \* the attributes of the NVCFAgent object, by name
    sibling   \* another handle of the same agent, with its remote task and
              \* the calls and the outcome of its last invocation

vars == <<meta, remote, calls, result, hist, agent, sibling>>

\* NVCFAgent.__init__: the one attribute the agent object has
NVCFAgent == [k \in {"_task_type_name"} |-> "nvcf_task"]

\* variant of _get_client that builds the client once and keeps it in the
\* agent object
_get_client_cached(self, metadata) ==
    IF "_client" \in DOMAIN self
    THEN [client |-> self["_client"], self |-> self]
    ELSE [client |-> [api_key |-> metadata.api_key, org_name |-> metadata.org_name],
          self |-> [k \in DOMAIN self \cup {"_client"} |->
                      IF k = "_client"
                      THEN [api_key |-> metadata.api_key, org_name |-> metadata.org_name]
                      ELSE self[k]]]

\* NVCFAgent._get_client(metadata): a new Client configured with the
\* credentials of the metadata, and the agent object after the call
_get_client(self, metadata) ==
    [client |-> [api_key |-> metadata.api_key, org_name |-> metadata.org_name],
     self |-> self]

\* entries of calls
\* client = self._get_client(m): the credentials the client is configured with
Connect(m) ==
    [op |-> "connect", arg |-> _get_client(agent, m).client.api_key,
     exc |-> "", msg |-> "", executor |-> FALSE]

\* the agent object after an invocation for m that made the calls cs
AgentAfter(cs, m) ==
    IF \E i \in 1..Len(cs) : cs[i].op = "connect"
    THEN _get_client(agent, m).self ELSE agent

\* a call of client.cloud_function.tasks.<op>(arg) that raised out (NoError:
\* returned), awaited through loop.run_in_executor(None, lambda: ...)
Call(op, arg, out) ==
    [op |-> op, arg |-> arg, exc |-> out.type, msg |-> out.msg, executor |-> TRUE]

\* the same call made directly in the coroutine, on the event loop's thread
DirectCall(op, arg, out) ==
    [op |-> op, arg |-> arg, exc |-> out.type, msg |-> out.msg, executor |-> FALSE]

\* asyncio.sleep(2)
Sleep == [op |-> "sleep", arg |-> "2", exc |-> "", msg |-> "", executor |-> FALSE]

\* the outcome of one invocation; no Resource the agent builds is given
\* log_links; log holds the records the invocation gave to the logger
Outcome(op, outcome, status, phase, message, exc_type) ==
    [op |-> op, outcome |-> outcome, status |-> status, phase |-> phase,
     rank |-> 0, message |-> message, log_links |-> <<>>, exc_type |-> exc_type,
     input |-> NoInput, log |-> <<>>]

\* logger.<level>(f"..."): the pieces of the formatted message
Log(level, msg) == [level |-> level, msg |-> msg]

\* outcome o of an invocation that logged the records l
WithLog(o, l) == [o EXCEPT !.log = l]

NoOutcome == Outcome("none", "none", NoneVal, NoneVal, <<>>, "")

NoHist == [created |-> FALSE, create_status |-> NoneVal, polls |-> 0,
           last_phase |-> NoneVal, ranks |-> {}, teardowns |-> 0]

\* the agent serves one handle
NoSibling == [meta |-> NoHandle, remote |-> Absent, calls |-> <<>>, result |-> NoOutcome]

Init ==
    /\ meta \in {NoHandle} \cup RestoredHandles
    /\ remote \in (IF meta = NoHandle \/ Falsy(meta.task_id)
                   THEN {Absent} ELSE {Absent} \cup RemoteStatuses)
    /\ calls = <<>>
    /\ result = NoOutcome
    /\ hist = NoHist
    /\ agent = NVCFAgent
    /\ sibling = NoSibling

\* ------------------------------------------------------------- the remote
\* the remote task changes status on its own (the mocked client of the tests
\* answers whatever status it is configured with)
RemoteStep ==
    /\ remote # Absent
    /\ \E s \in RemoteStatuses \ {remote} : remote' = s
    /\ UNCHANGED <<meta, calls, result, hist, agent, sibling>>

\* what client.cloud_function.tasks.info(task_id) can do: answer the task's
\* status when the task exists, or raise
InfoOutcomes == (IF remote = Absent THEN {} ELSE {NoError}) \cup RemoteErrors

\* ------------------------------------------------------- NVCFTaskConfig
\* a keyword argument the caller leaves out
Omitted == "<omitted>"

\* container_args, max_runtime_duration, max_queued_duration and
\* termination_grace_period_duration as a caller passes them: all left out,
\* as tests/test_nvcf.py passes them, one given alone, a duration given as None
OptionalArgs ==
    LET args == "python -c 'print(1)'"
    IN {<<Omitted, Omitted, Omitted, Omitted>>, <<args, "PT1H", Omitted, Omitted>>,
        <<args, Omitted, Omitted, Omitted>>, <<Omitted, "PT1H", Omitted, Omitted>>,
        <<Omitted, Omitted, NoneVal, Omitted>>, <<Omitted, Omitted, Omitted, NoneVal>>,
        <<args, "PT1H", NoneVal, NoneVal>>}

\* the arguments nvcf_task is called with; the optional ones are given, given
\* as None, or left out
ConfigArgs ==
    { [name |-> "test-task", container_image |-> "nvcr.io/test/image:latest",
       gpu_specification |-> g, container_args |-> x[1],
       max_runtime_duration |-> x[2], max_queued_duration |-> x[3],
       termination_grace_period_duration |-> x[4],
       result_handling_strategy |-> h, results_location |-> l,
       api_key |-> k, org_name |-> o, base_url |-> Omitted] :
        g \in {NoGpu, PartialGpu, FullGpu}, x \in OptionalArgs, h \in {"UPLOAD", "NONE"},
        l \in {NoneVal, "test-org/test-results"}, k \in {NoneVal, "test-api-key"},
        o \in {NoneVal, "test-org"} }

\* variant of the signature with a queue limit of one hour
Signature_one_hour_queue(a) ==
    LET dflt(k, v) == IF a[k] = Omitted THEN v ELSE a[k]
    IN [a EXCEPT !.container_args = dflt("container_args", NoneVal),
                 !.max_runtime_duration = dflt("max_runtime_duration", NoneVal),
                 !.max_queued_duration = dflt("max_queued_duration", "PT1H"),
                 !.termination_grace_period_duration =
                     dflt("termination_grace_period_duration", "PT15M"),
                 !.base_url = dflt("base_url", DefaultBaseUrl)]

\* the signature of nvcf_task and of NVCFTaskConfig.__init__: an argument
\* left out takes its default
Signature(a) ==
    LET dflt(k, v) == IF a[k] = Omitted THEN v ELSE a[k]
    IN [a EXCEPT !.container_args = dflt("container_args", NoneVal),
                 !.max_runtime_duration = dflt("max_runtime_duration", NoneVal),
                 !.max_queued_duration = dflt("max_queued_duration", "PT6H"),
                 !.termination_grace_period_duration =
                     dflt("termination_grace_period_duration", "PT15M"),
                 !.base_url = dflt("base_url", DefaultBaseUrl)]

\* variant of NVCFTaskConfig that does not look at results_location
NVCFTaskConfig_no_location_check(a) ==
    IF Falsy(a.api_key)
    THEN [type |-> "ValueError", msg |-> "NVCF API key is required"]
    ELSE IF Falsy(a.org_name)
    THEN [type |-> "ValueError", msg |-> "NGC organization name is required"]
    ELSE NoError

\* variant of NVCFTaskConfig that does not look at api_key
NVCFTaskConfig_no_api_key_check(a) ==
    IF a.result_handling_strategy = "UPLOAD" /\ Falsy(a.results_location)
    THEN [type |-> "ValueError",
          msg |-> "results_location is required when result_handling_strategy is UPLOAD"]
    ELSE IF Falsy(a.org_name)
    THEN [type |-> "ValueError", msg |-> "NGC organization name is required"]
    ELSE NoError

\* NVCFTaskConfig.__init__: the exception it raises (NoError: the
\* configuration object is built from the arguments as they are)
NVCFTaskConfig(a) ==
    IF a.result_handling_strategy = "UPLOAD" /\ Falsy(a.results_location)
    THEN [type |-> "ValueError",
          msg |-> "results_location is required when result_handling_strategy is UPLOAD"]
    ELSE IF Falsy(a.api_key)
    THEN [type |-> "ValueError", msg |-> "NVCF API key is required"]
    ELSE IF Falsy(a.org_name)
    THEN [type |-> "ValueError", msg |-> "NGC organization name is required"]
    ELSE NoError

\* the attribute of the configuration behind each key of the wire record
WireKeys ==
    [name |-> "name", containerImage |-> "container_image",
     gpuSpecification |-> "gpu_specification", containerArgs |-> "container_args",
     maxRuntimeDuration |-> "max_runtime_duration",
     maxQueuedDuration |-> "max_queued_duration",
     terminationGracePeriodDuration |-> "termination_grace_period_duration",
     resultHandlingStrategy |-> "result_handling_strategy",
     resultsLocation |-> "results_location"]

\* variant of to_dict that leaves resultsLocation out
to_dict_no_location(c) ==
    LET always == {"name", "containerImage", "gpuSpecification", "maxQueuedDuration",
                   "terminationGracePeriodDuration", "resultHandlingStrategy"}
        truthy == { k \in {"containerArgs", "maxRuntimeDuration"} : ~Falsy(c[WireKeys[k]]) }
    IN [k \in always \cup truthy |-> c[WireKeys[k]]]

\* NVCFTaskConfig.to_dict: six keys are always there, whatever their value;
\* the others only when their value is truthy
to_dict(c) ==
    LET always == {"name", "containerImage", "gpuSpecification", "maxQueuedDuration",
                   "terminationGracePeriodDuration", "resultHandlingStrategy"}
        truthy == { k \in {"containerArgs", "maxRuntimeDuration", "resultsLocation"} :
                        ~Falsy(c[WireKeys[k]]) }
    IN [k \in always \cup truthy |-> c[WireKeys[k]]]

\* NVCFTask.get_custom: the custom attributes of the task built from the
\* configuration c
get_custom(c) ==
    [api_key |-> c.api_key, org_name |-> c.org_name, base_url |-> c.base_url,
     nvcf_config |-> to_dict(c)]

\* nvcf_task(**a): NVCFTaskConfig(...), NVCFTask(...), and the custom
\* attributes the task serializes to
nvcf_task ==
    /\ meta = NoHandle
    /\ \E a \in ConfigArgs :
        LET c == Signature(a)
            e == NVCFTaskConfig(c)
        IN result' =
            IF e # NoError
            THEN WithInput(Outcome("nvcf_task", "raise", NoneVal, NoneVal, <<e.msg>>, e.type),
                           a, NoTemplate, NoResponse)
            ELSE WithInput(Outcome("nvcf_task", "return", NoneVal, NoneVal, <<>>, ""),
                           a, get_custom(c), NoResponse)
    /\ calls' = <<>>
    /\ UNCHANGED <<meta, remote, hist, agent, sibling>>

\* ---------------------------------------------------------------- create
\* ISO-8601 duration strings of a task template: absent, well formed, malformed
Durations == {NoneVal, "PT1H", "1 hour"}

\* isodate.parse_duration accepts the string
WellFormedDuration(d) == d = "PT1H"

\* the three duration strings of an nvcf_config (maxRuntimeDuration,
\* maxQueuedDuration, terminationGracePeriodDuration): none given, all well
\* formed, only the queued one given, each of them malformed in turn, and
\* the queued one the empty string (to_dict emits max_queued_duration as it
\* is given)
DurationTriples ==
    {<<NoneVal, NoneVal, NoneVal>>, <<"PT1H", "PT1H", "PT1H">>, <<NoneVal, "PT1H", NoneVal>>,
     <<"1 hour", "PT1H", "PT1H">>, <<"PT1H", "1 hour", "PT1H">>, <<"PT1H", "PT1H", "1 hour">>,
     <<"PT1H", "", "PT1H">>}

\* the secrets of an nvcf_config: name/value pairs
TestSecrets == <<[name |-> "NGC_API_KEY", value |-> "test-secret-value"]>>

\* task_template.custom: api_key, org_name, base_url and the nvcf_config
\* record (has_config: the record is there and not empty; without it none
\* of its keys is)
Templates ==
    { [api_key |-> a, org_name |-> o, base_url |-> b, has_config |-> TRUE,
       name |-> "test-task", gpuSpecification |-> g,
       maxRuntimeDuration |-> d[1], maxQueuedDuration |-> d[2],
       terminationGracePeriodDuration |-> d[3],
       resultHandlingStrategy |-> "UPLOAD", resultsLocation |-> l,
       secrets |-> TestSecrets] :
        a \in {NoneVal, "test-api-key"}, o \in {NoneVal, "test-org"},
        b \in {DefaultBaseUrl, "https://nvct.example/v1"},
        g \in {NoGpu, PartialGpu, FullGpu}, d \in DurationTriples,
        l \in {NoneVal, "test-org/test-results"} }
    \cup
    { [NoTemplate EXCEPT !.api_key = a, !.org_name = o, !.base_url = b] :
        a \in {NoneVal, "test-api-key"}, o \in {NoneVal, "test-org"},
        b \in {DefaultBaseUrl, "https://nvct.example/v1"} }

\* the answer of tasks.create: output.task.id, .status, .createdAt
CreateResponses ==
    [id : {"test-task-id"}, status : RemoteStatuses, createdAt : {"2023-01-01T00:00:00Z"}]

\* variant of _get_metadata that does not look at org_name
_get_metadata_no_org_check(t) ==
    IF Falsy(t.api_key)
    THEN [type |-> "ValueError",
          msg |-> "NVCF API key is missing. Please provide 'api_key' in task definition."]
    ELSE NoError

\* NVCFAgent._get_metadata: the exception it raises (NoError: it returns
\* NVCFMetadata(api_key=api_key, org_name=org_name))
_get_metadata(t) ==
    IF Falsy(t.api_key)
    THEN [type |-> "ValueError",
          msg |-> "NVCF API key is missing. Please provide 'api_key' in task definition."]
    ELSE IF Falsy(t.org_name)
    THEN [type |-> "ValueError",
          msg |-> "Organization name is missing. Please provide 'org_name' in task definition."]
    ELSE NoError

\* variant of CreatePrecheck that lets a missing gpuSpecification through
CreatePrecheck_no_gpu_check(t) ==
    IF _get_metadata(t) # NoError THEN _get_metadata(t)
    ELSE IF ~t.has_config
    THEN [type |-> "ValueError", msg |-> "NVCF task configuration is missing."]
    ELSE IF \E d \in {t.maxRuntimeDuration, t.maxQueuedDuration,
                      t.terminationGracePeriodDuration} :
                ~Falsy(d) /\ ~WellFormedDuration(d)
    THEN [type |-> "ISO8601Error", msg |-> "Unable to parse duration string"]
    ELSE NoError

\* variant of CreatePrecheck that drops a duration it cannot parse
CreatePrecheck_durations_dropped(t) ==
    IF _get_metadata(t) # NoError THEN _get_metadata(t)
    ELSE IF ~t.has_config
    THEN [type |-> "ValueError", msg |-> "NVCF task configuration is missing."]
    ELSE IF t.gpuSpecification = NoGpu
    THEN [type |-> "ValueError", msg |-> "GPU specification is required"]
    ELSE NoError

\* the exception create raises before the try block of the submit call
\* (NoError: it reaches the submit call)
CreatePrecheck(t) ==
    IF _get_metadata(t) # NoError THEN _get_metadata(t)
    ELSE IF ~t.has_config
    THEN [type |-> "ValueError", msg |-> "NVCF task configuration is missing."]
    ELSE IF t.gpuSpecification = NoGpu
    THEN [type |-> "ValueError", msg |-> "GPU specification is required"]
    ELSE IF \E d \in {t.maxRuntimeDuration, t.maxQueuedDuration,
                      t.terminationGracePeriodDuration} :
                ~Falsy(d) /\ ~WellFormedDuration(d)
    THEN [type |-> "ISO8601Error", msg |-> "Unable to parse duration string"]
    ELSE NoError

\* _get_client is called once the metadata and the nvcf_config are there
CreateConnects(t) == _get_metadata(t) = NoError /\ t.has_config

\* variant of CreatedMetadata that takes a new task for QUEUED
CreatedMetadata_queued(t, resp) ==
    NVCFMetadata(t.api_key, t.org_name, DefaultBaseUrl, resp.id, t.name,
                 "QUEUED", 0, resp.createdAt)

\* the metadata create returns after a submit answered by resp
CreatedMetadata(t, resp) ==
    NVCFMetadata(t.api_key, t.org_name, DefaultBaseUrl, resp.id, t.name,
                 resp.status, 0, resp.createdAt)

\* variant of CreateFailure that drops the cause
CreateFailure_no_cause(e) ==
    Outcome("create", "raise", NoneVal, NoneVal,
            <<"Failed to create NVCF task">>, "RuntimeError")

\* what create raises when the submit call raised e
CreateFailure(e) ==
    Outcome("create", "raise", NoneVal, NoneVal,
            <<"Failed to create NVCF task: ", str(e)>>, "RuntimeError")

\* the submit call is reached: what tasks.create can do, and its answer
SubmitOutcomes(t) ==
    IF CreatePrecheck(t) # NoError THEN {<<NoError, CHOOSE r \in CreateResponses : TRUE>>}
    ELSE ({NoError} \cup RemoteErrors) \X CreateResponses

\* the templates create rejects before the submit call, and the others
RejectedTemplates == { t \in Templates : CreatePrecheck(t) # NoError }

SubmittedTemplates == Templates \ RejectedTemplates

\* variant of CreateCalls that submits a second time after a failed submit
CreateCalls_retrying(t, out) ==
    (IF CreateConnects(t) THEN <<Connect(t)>> ELSE <<>>)
    \o (IF CreatePrecheck(t) # NoError THEN <<>>
        ELSE IF out = NoError THEN <<Call("create", t.name, out)>>
        ELSE <<Call("create", t.name, out), Call("create", t.name, out)>>)

\* the SDK calls of one create: the client once the metadata and the
\* nvcf_config are read, the submit call once the whole template is translated
CreateCalls(t, out) ==
    (IF CreateConnects(t) THEN <<Connect(t)>> ELSE <<>>)
    \o (IF CreatePrecheck(t) = NoError THEN <<Call("create", t.name, out)>> ELSE <<>>)

\* what create logs: nothing when it raises before the submit call, the new
\* task id after a submit that returned, the cause after one that raised
CreateLog(t, out, resp) ==
    IF CreatePrecheck(t) # NoError THEN <<>>
    ELSE IF out = NoError
    THEN <<Log("INFO", <<"Created NVCF task with ID: ", resp.id>>)>>
    ELSE <<Log("ERROR", <<"Failed to create NVCF task: ", str(out)>>)>>

\* NVCFAgent.create(task_template)
Create ==
    /\ meta = NoHandle
    /\ \/ \E t \in RejectedTemplates :
            /\ result' = WithLog(WithInput(Outcome("create", "raise", NoneVal, NoneVal,
                                                   <<CreatePrecheck(t).msg>>,
                                                   CreatePrecheck(t).type),
                                           NoArgs, t, NoResponse),
                                 CreateLog(t, NoError, NoResponse))
            /\ calls' = CreateCalls(t, NoError)
            /\ agent' = AgentAfter(calls', t)
            /\ UNCHANGED <<meta, remote, hist, sibling>>
       \/ \E t \in SubmittedTemplates, out \in RemoteErrors :
            /\ calls' = CreateCalls(t, out)
            /\ result' = WithLog(WithInput(CreateFailure(out), NoArgs, t, NoResponse),
                                 CreateLog(t, out, NoResponse))
            /\ agent' = AgentAfter(calls', t)
            /\ UNCHANGED <<meta, remote, hist, sibling>>
       \/ \E t \in SubmittedTemplates, resp \in CreateResponses :
            /\ calls' = CreateCalls(t, NoError)
            /\ result' = WithLog(WithInput(Outcome("create", "return", resp.status,
                                                   NoneVal, <<>>, ""),
                                           NoArgs, t, resp),
                                 CreateLog(t, NoError, resp))
            /\ meta' = CreatedMetadata(t, resp)
            /\ remote' = resp.status
            /\ hist' = [NoHist EXCEPT !.created = TRUE, !.create_status = resp.status]
            /\ agent' = AgentAfter(calls', t)
            /\ UNCHANGED sibling

\* ------------------------------------------------------------------- get
\* variant of GetReturn that maps the status cached in the metadata instead
\* of the status the info call returned
GetReturn_cached_status(m, out) ==
    IF Falsy(m.task_id)
    THEN Outcome("get", "return", NoneVal, "UNDEFINED",
                 <<"Task ID is missing in resource metadata">>, "")
    ELSE IF out = NoError
    THEN Outcome("get", "return", remote, _map_status_to_phase(m.status)[1], <<remote>>, "")
    ELSE Outcome("get", "return", NoneVal, "FAILED",
                 <<"Unable to determine task status: ", str(out)>>, out.type)

\* variant of GetReturn that reports a failed info call with the message of
\* a failed task
GetReturn_conflated(m, out) ==
    IF Falsy(m.task_id)
    THEN Outcome("get", "return", NoneVal, "UNDEFINED",
                 <<"Task ID is missing in resource metadata">>, "")
    ELSE IF out = NoError
    THEN LET status == remote
             phase == _map_status_to_phase(status)[1]
         IN IF status = "FAILED"
            THEN Outcome("get", "return", status, phase, <<"Task execution failed">>, "")
            ELSE Outcome("get", "return", status, phase, <<status>>, "")
    ELSE Outcome("get", "return", NoneVal, "FAILED", <<"Task execution failed">>, out.type)

\* variant of GetReturn that drops a failed info call and reports the task
\* as still running
GetReturn_swallowing(m, out) ==
    IF Falsy(m.task_id)
    THEN Outcome("get", "return", NoneVal, "UNDEFINED",
                 <<"Task ID is missing in resource metadata">>, "")
    ELSE IF out = NoError
    THEN LET status == remote
             phase == _map_status_to_phase(status)[1]
         IN IF status = "FAILED"
            THEN Outcome("get", "return", status, phase, <<"Task execution failed">>, "")
            ELSE Outcome("get", "return", status, phase, <<status>>, "")
    ELSE Outcome("get", "return", NoneVal, "RUNNING", <<"RUNNING">>, "")

\* variant of GetReturn that answers a failed info call with the phase of
\* the status the handle holds
GetReturn_stale(m, out) ==
    IF Falsy(m.task_id)
    THEN Outcome("get", "return", NoneVal, "UNDEFINED",
                 <<"Task ID is missing in resource metadata">>, "")
    ELSE IF out = NoError
    THEN LET status == remote
             phase == _map_status_to_phase(status)[1]
         IN IF status = "FAILED"
            THEN Outcome("get", "return", status, phase, <<"Task execution failed">>, "")
            ELSE Outcome("get", "return", status, phase, <<status>>, "")
    ELSE Outcome("get", "return", NoneVal, _map_status_to_phase(m.status)[1],
                 <<"Unable to determine task status: ", str(out)>>, out.type)

\* Resource(phase=..., message=...) as returned by get
GetReturn(m, out) ==
    IF Falsy(m.task_id)
    THEN Outcome("get", "return", NoneVal, "UNDEFINED",
                 <<"Task ID is missing in resource metadata">>, "")
    ELSE IF out = NoError
    THEN LET status == remote
             phase == _map_status_to_phase(status)[1]
         IN IF status = "FAILED"
            THEN Outcome("get", "return", status, phase, <<"Task execution failed">>, "")
            ELSE Outcome("get", "return", status, phase, <<status>>, "")
    ELSE Outcome("get", "return", NoneVal, "FAILED",
                 <<"Unable to determine task status: ", str(out)>>, out.type)

\* variant of GetCalls that asks the service before it looks at the task id
GetCalls_always_info(m, out) ==
    <<Connect(m), DirectCall("info", m.task_id, out)>>

\* phase, _ = self._map_status_to_phase(status): the phase version the
\* mapping gives in a get whose info call answered (none otherwise)
PollRank(o) ==
    IF o.op = "get" /\ o.status # NoneVal THEN {_map_status_to_phase(o.status)[2]} ELSE {}

\* the SDK calls of one get: none without a task id, else the client and
\* the info call, made directly ("Use synchronous call ...")
GetCalls(m, out) ==
    IF Falsy(m.task_id) THEN <<>>
    ELSE <<Connect(m), DirectCall("info", m.task_id, out)>>

\* what get logs when the info call answered status: the warning of the
\* mapping for a status it does not name, the status with its phase, and
\* the completion (logger.debug is below the logger's level INFO)
GetLog(m, out, status) ==
    IF Falsy(m.task_id)
    THEN <<Log("WARNING", <<"Task ID is missing in resource metadata">>)>>
    ELSE IF out = NoError
    THEN (IF _map_status_to_phase(status)[1] = "UNDEFINED"
          THEN <<Log("WARNING", <<"Unknown NVCF status: ", status, ", mapping to UNDEFINED">>)>>
          ELSE <<>>)
         \o <<Log("INFO", <<"Task ", m.task_id, ": Status: ", status,
                            " Mapped to Flyte phase: ", _map_status_to_phase(status)[1]>>)>>
         \o (IF status = "COMPLETED"
             THEN <<Log("INFO", <<"Task ", m.task_id,
                                  ": Task completed successfully, retrieving results">>)>>
             ELSE <<>>)
    ELSE <<Log("ERROR", <<"Failed to get NVCF task status: ", str(out)>>)>>

\* NVCFAgent.get(resource_meta)
Get ==
    /\ meta # NoHandle
    /\ hist.polls < MaxPolls
    /\ \E out \in InfoOutcomes :
        /\ result' = WithLog(GetReturn(meta, out), GetLog(meta, out, remote))
        /\ calls' = GetCalls(meta, out)
        /\ hist' = [hist EXCEPT !.polls = @ + 1, !.last_phase = result'.phase,
                                !.ranks = @ \cup PollRank(result')]
    /\ agent' = AgentAfter(calls', meta)
    /\ UNCHANGED <<meta, remote, sibling>>

\* ---------------------------------------------------------------- delete
\* what tasks.cancel / tasks.delete / tasks.info can do on a task in remote
\* state r
CallOutcomes(r) == (IF r = Absent THEN {} ELSE {NoError}) \cup RemoteErrors

\* what tasks.cancel and the tasks.info of the re-check can do: every
\* exception of theirs is caught by the same `except Exception`
CaughtOutcomes(r) == (IF r = Absent THEN {} ELSE {NoError}) \cup {NotFoundError, TransportError}

NoException == [type |-> "", msg |-> <<>>]

\* variant of CancelCalls that cancels a RUNNING task only
CancelCalls_running_only(m, cancelOut) ==
    IF m.status = "RUNNING"
    THEN IF cancelOut = NoError
         THEN <<Call("cancel", m.task_id, cancelOut), Sleep>>
         ELSE <<Call("cancel", m.task_id, cancelOut)>>
    ELSE <<>>

\* variant of CancelCalls that goes from the cancel to the delete at once
CancelCalls_no_sleep(m, cancelOut) ==
    IF m.status \in {"QUEUED", "LAUNCHED", "RUNNING"}
    THEN <<Call("cancel", m.task_id, cancelOut)>>
    ELSE <<>>

\* the try block around tasks.cancel: the call and, when it returned, the
\* sleep
CancelCalls(m, cancelOut) ==
    IF m.status \in {"QUEUED", "LAUNCHED", "RUNNING"}
    THEN IF cancelOut = NoError
         THEN <<Call("cancel", m.task_id, cancelOut), Sleep>>
         ELSE <<Call("cancel", m.task_id, cancelOut)>>
    ELSE <<>>

\* variant of CancelRaised without the handler: a failed cancel leaves the
\* try block
CancelRaised_unhandled(m, cancelOut) ==
    IF m.status \in {"QUEUED", "LAUNCHED", "RUNNING"} /\ cancelOut # NoError
    THEN [type |-> cancelOut.type, msg |-> <<str(cancelOut)>>]
    ELSE NoException

\* the exception that leaves that try block: `except Exception` logs a
\* failed cancel and goes on to the delete
CancelRaised(m, cancelOut) == NoException

\* variant of _safe_delete that raises the JSONDecodeError again
_safe_delete_reraising(deleteOut) == deleteOut

\* NVCFAgent._safe_delete: a JSONDecodeError of tasks.delete is a normal
\* return, any other exception is raised again
_safe_delete(deleteOut) ==
    IF deleteOut.type = "JSONDecodeError" THEN NoError ELSE deleteOut

\* the body of the try block entered after a delete that raised e: the
\* existence check, and the RuntimeError raised when the task still exists
RecheckBody(e, infoOut) ==
    IF infoOut = NoError
    THEN [type |-> "RuntimeError", msg |-> <<"Failed to delete task: ", str(e)>>]
    ELSE [type |-> infoOut.type, msg |-> <<str(infoOut)>>]

\* variant of RecheckHandled that drops the RuntimeError only: what
\* tasks.info raised leaves the try block
RecheckHandled_runtime_only(x) ==
    IF x.type = "RuntimeError" THEN NoException ELSE x

\* variant of RecheckHandled that drops what tasks.info raised only: the
\* RuntimeError of a task that still exists leaves the try block
RecheckHandled_info_only(x) ==
    IF x.type = "RuntimeError" THEN x ELSE NoException

\* `except Exception:` of that try block: every exception the body raised,
\* the RuntimeError included, is logged and dropped
RecheckHandled(x) ==
    IF x.type # "" THEN NoException ELSE x

\* the exception that reaches the outer `except Exception as e` of delete
DeleteRaised(m, cancelOut, deleteOut, infoOut) ==
    IF CancelRaised(m, cancelOut) # NoException THEN CancelRaised(m, cancelOut)
    ELSE IF _safe_delete(deleteOut) = NoError THEN NoException
    ELSE RecheckHandled(RecheckBody(_safe_delete(deleteOut), infoOut))

\* variant of DeleteCalls that tries a failed delete a second time
DeleteCalls_retrying(m, cancelOut, deleteOut, infoOut) ==
    IF Falsy(m.task_id) THEN <<>>
    ELSE <<Connect(m)>> \o CancelCalls(m, cancelOut)
         \o <<Call("delete", m.task_id, deleteOut)>>
         \o (IF _safe_delete(deleteOut) # NoError
             THEN <<Call("delete", m.task_id, deleteOut), Call("info", m.task_id, infoOut)>>
             ELSE <<>>)

\* variant of DeleteCalls that builds the client before it looks at the
\* task id
DeleteCalls_client_first(m, cancelOut, deleteOut, infoOut) ==
    <<Connect(m)>>
    \o (IF Falsy(m.task_id) THEN <<>>
        ELSE CancelCalls(m, cancelOut)
             \o <<Call("delete", m.task_id, deleteOut)>>
             \o (IF _safe_delete(deleteOut) # NoError
                 THEN <<Call("info", m.task_id, infoOut)>> ELSE <<>>))

\* the SDK calls of one delete, in order
DeleteCalls(m, cancelOut, deleteOut, infoOut) ==
    IF Falsy(m.task_id) THEN <<>>
    ELSE <<Connect(m)>> \o CancelCalls(m, cancelOut)
         \o (IF CancelRaised(m, cancelOut) # NoException THEN <<>>
             ELSE <<Call("delete", m.task_id, deleteOut)>>
                  \o (IF _safe_delete(deleteOut) # NoError
                      THEN <<Call("info", m.task_id, infoOut)>> ELSE <<>>))

\* what delete returns (None) or raises (the outer handler's RuntimeError)
DeleteReturn(m, cancelOut, deleteOut, infoOut) ==
    IF Falsy(m.task_id) THEN Outcome("delete", "return", NoneVal, NoneVal, <<>>, "")
    ELSE LET x == DeleteRaised(m, cancelOut, deleteOut, infoOut)
         IN IF x = NoException
            THEN Outcome("delete", "return", NoneVal, NoneVal, <<>>, "")
            ELSE Outcome("delete", "raise", NoneVal, NoneVal,
                         <<"Failed to delete NVCF task: ">> \o x.msg, "RuntimeError")

\* what delete logs (of the record of a task that still exists the text
\* before the status is kept, the status the service answered is not)
DeleteLog(m, cancelOut, deleteOut, infoOut) ==
    IF Falsy(m.task_id)
    THEN <<Log("WARNING", <<"Task ID is missing in resource metadata, nothing to delete">>)>>
    ELSE (IF m.status \in {"QUEUED", "LAUNCHED", "RUNNING"}
          THEN IF cancelOut = NoError
               THEN <<Log("INFO", <<"Canceled NVCF task with ID: ", m.task_id>>)>>
               ELSE <<Log("WARNING", <<"Failed to cancel task, proceeding to delete: ",
                                       str(cancelOut)>>)>>
          ELSE <<>>)
         \o (IF deleteOut = JSONDecodeError
             THEN <<Log("INFO", <<"Received empty response from delete operation, assuming success">>)>>
             ELSE <<>>)
         \o (IF _safe_delete(deleteOut) = NoError
             THEN <<Log("INFO", <<"Deleted NVCF task with ID: ", m.task_id>>)>>
             ELSE (IF infoOut = NoError
                   THEN <<Log("ERROR", <<"Task still exists with status: ">>)>>
                   ELSE <<>>)
                  \o <<Log("INFO", <<"Task ", m.task_id,
                                     " appears to be already deleted or inaccessible">>)>>)

\* the remote task after the calls of one delete: gone after a delete that
\* returned (after an empty response it may or may not be, gone tells),
\* canceled after a cancel that returned, unless the task completed on its
\* own between the cancel and the delete (raced tells)
RemoteAfterDelete(m, cancelOut, deleteOut, gone, raced) ==
    IF Falsy(m.task_id) THEN remote
    ELSE IF deleteOut = NoError \/ (deleteOut = JSONDecodeError /\ gone) THEN Absent
    ELSE IF m.status \in {"QUEUED", "LAUNCHED", "RUNNING"} /\ cancelOut = NoError
              /\ remote \in NonTerminalStatuses
    THEN IF raced THEN "COMPLETED" ELSE "CANCELED"
    ELSE remote

\* the answers of the remote service one delete can meet: of cancel (when
\* it is called), of delete, of info (when it is called), gone, and raced
\* (the task completes while the handler sleeps after a cancel of a running
\* task)
DeleteInputs(m) ==
    IF Falsy(m.task_id) THEN {<<NoError, NoError, NoError, FALSE, FALSE>>}
    ELSE UNION { { <<c, d, i, g, r>> :
                     i \in (IF _safe_delete(d) = NoError THEN {NoError}
                            ELSE CaughtOutcomes(remote)),
                     g \in (IF d = JSONDecodeError THEN BOOLEAN ELSE {FALSE}),
                     r \in (IF m.status \in {"QUEUED", "LAUNCHED", "RUNNING"}
                               /\ c = NoError /\ remote \in NonTerminalStatuses
                               /\ _safe_delete(d) # NoError
                            THEN BOOLEAN ELSE {FALSE}) } :
                 c \in (IF m.status \in {"QUEUED", "LAUNCHED", "RUNNING"}
                        THEN CaughtOutcomes(remote) ELSE {NoError}),
                 d \in CallOutcomes(remote) }

\* NVCFAgent.delete(resource_meta)
Delete ==
    /\ meta # NoHandle
    /\ hist.teardowns < MaxTeardowns
    /\ \E x \in DeleteInputs(meta) :
        /\ calls' = DeleteCalls(meta, x[1], x[2], x[3])
        /\ result' = WithLog(DeleteReturn(meta, x[1], x[2], x[3]),
                             DeleteLog(meta, x[1], x[2], x[3]))
        /\ remote' = RemoteAfterDelete(meta, x[1], x[2], x[4], x[5])
    /\ hist' = [hist EXCEPT !.teardowns = @ + 1]
    /\ agent' = AgentAfter(calls', meta)
    /\ UNCHANGED <<meta, sibling>>

\* --------------------------------------------------------- update_status
\* variant of update_status that takes the handle over for another task
update_status_repointing(m, kw) ==
    [m EXCEPT !.status = kw.status, !.task_id = "other-task-id"]

\* NVCFMetadata.update_status(status, percent_complete=None,
\* last_updated_at=None); kw holds the arguments given other than None
update_status(m, kw) ==
    LET m1 == [m EXCEPT !.status = kw.status]
        m2 == IF "percent_complete" \in DOMAIN kw
              THEN [m1 EXCEPT !.percent_complete = kw.percent_complete] ELSE m1
    IN IF "last_updated_at" \in DOMAIN kw
       THEN [m2 EXCEPT !.last_updated_at = kw.last_updated_at] ELSE m2

\* the holder of the handle records the status the last get answered, with
\* or without the progress and the time of it
UpdateStatus ==
    /\ meta # NoHandle
    /\ result.op = "get" /\ result.status # NoneVal
    /\ \/ meta' = update_status(meta, [status |-> result.status])
       \/ meta' = update_status(meta, [status |-> result.status,
                                       percent_complete |-> 100,
                                       last_updated_at |-> "2024-01-01T00:10:00Z"])
    /\ UNCHANGED <<remote, calls, result, hist, agent, sibling>>

\* a direct call of NVCFAgent._map_status_to_phase(status), as the unit test
\* makes it: the mapping reads no state, so it is exercised where no handle is
MapStatus ==
    /\ meta = NoHandle
    /\ \E s \in MapInputs :
        LET r == _map_status_to_phase(s)
        IN result' = [Outcome("map", "return", s, r[1], <<>>, "") EXCEPT !.rank = r[2]]
    /\ calls' = <<>>
    /\ UNCHANGED <<meta, remote, hist, agent, sibling>>

Next ==
    \/ RemoteStep
    \/ nvcf_task
    \/ Create
    \/ Get
    \/ Delete
    \/ MapStatus

\* the handles create returns for the submit answer of tests/test_agent.py
\* (a new task is QUEUED)
CreatedHandles ==
    { CreatedMetadata(t, resp) : t \in SubmittedTemplates,
                                 resp \in {r \in CreateResponses : r.status = "QUEUED"} }

\* a handle as its holder got it from create, the task in the status the
\* submit answered
InitHeld ==
    /\ meta \in CreatedHandles
    /\ remote = meta.status
    /\ calls = <<>>
    /\ result = NoOutcome
    /\ hist = [NoHist EXCEPT !.created = TRUE, !.create_status = meta.status]
    /\ agent = NVCFAgent
    /\ sibling = NoSibling

\* the life of a handle whose holder keeps its status up to date
NextHeld ==
    \/ RemoteStep
    \/ Get
    \/ UpdateStatus
    \/ Delete

\* the handle of another task of another organisation, as create returns it
OtherHandles ==
    { [m EXCEPT !.api_key = "other-api-key", !.org_name = "other-org",
                !.task_id = "other-task-id"] : m \in CreatedHandles }

\* the event loop turns to the other handle: the invocations that follow
\* are given it, and talk to the service about its task
Switch ==
    /\ meta' = sibling.meta
    /\ remote' = sibling.remote
    /\ calls' = sibling.calls
    /\ result' = sibling.result
    /\ sibling' = [meta |-> meta, remote |-> remote, calls |-> calls, result |-> result]
    /\ UNCHANGED <<hist, agent>>

\* two handles that create returned, held by the orchestrator
InitTwo ==
    /\ meta \in CreatedHandles
    /\ remote = meta.status
    /\ calls = <<>>
    /\ result = NoOutcome
    /\ hist = [NoHist EXCEPT !.created = TRUE, !.create_status = meta.status]
    /\ agent = NVCFAgent
    /\ sibling \in { [meta |-> m, remote |-> m.status, calls |-> <<>>, result |-> NoOutcome] :
                        m \in OtherHandles }

\* one agent object serving the two handles in any interleaving; hist
\* counts the invocations of both
NextTwo ==
    \/ Get
    \/ Delete
    \/ Switch

\* ------------------------------------------------------------ the claims
\* positions of the calls of one SDK operation in the last invocation
CallsOf(op) == { i \in 1..Len(calls) : calls[i].op = op }

Pieces(message) == { message[i] : i \in 1..Len(message) }

\* the last invocation was a get whose info call answered
PollSucceeded == result.op = "get" /\ result.status # NoneVal

\* the last invocation was a delete on a handle that has a remote id
TeardownRan == result.op = "delete" /\ ~Falsy(meta.task_id)

\* C1: after a poll whose info call succeeded, the metadata object passed in
\* holds the status the info call returned.
C1_PollUpdatesMetadata ==
    PollSucceeded => meta.status = result.status

\* C2: create (status QUEUED), then polls, then teardown: when the last poll
\* reported SUCCEEDED, the teardown issues no cancel call and issues the
\* delete call.
C2_NoCancelAfterSucceeded ==
    ( /\ TeardownRan
      /\ hist.created
      /\ hist.create_status = "QUEUED"
      /\ hist.polls >= 1
      /\ hist.last_phase = "SUCCEEDED" )
    => (CallsOf("cancel") = {} /\ CallsOf("delete") # {})

\* C3: a teardown on a handle with a remote id issues a cancel call exactly
\* when the handle's status is QUEUED, LAUNCHED or RUNNING; it then issues
\* exactly one delete for the handle's task id, after the cancel.
C3_CancelIffNonTerminal ==
    TeardownRan =>
        /\ (CallsOf("cancel") # {}) <=> (meta.status \in NonTerminalStatuses)
        /\ Cardinality(CallsOf("cancel")) <= 1
        /\ Cardinality(CallsOf("delete")) = 1
        /\ \A d \in CallsOf("delete") :
            /\ calls[d].arg = meta.task_id
            /\ \A c \in CallsOf("cancel") : c < d /\ calls[c].arg = meta.task_id

C3_Witness ==
    /\ TeardownRan
    /\ meta.status = "LAUNCHED"
    /\ CallsOf("cancel") # {}
    /\ CallsOf("delete") # {}

\* C4: when the delete call of a teardown failed, not by an empty response,
\* and the existence check that follows succeeded, the teardown raises.
C4_StillPresentRaises ==
    ( /\ TeardownRan
      /\ \E d \in CallsOf("delete") : calls[d].exc \notin {"", "JSONDecodeError"}
      /\ \E i \in CallsOf("info") : calls[i].exc = "" )
    => result.outcome = "raise"

C6_PollPhaseIsMapped ==
    [][(hist'.polls = hist.polls + 1 /\ result'.status # NoneVal) =>
        /\ result'.status = remote
        /\ result'.phase = _map_status_to_phase(remote)[1]]_vars

C6_Witness ==
    PollSucceeded /\ meta.status = "QUEUED" /\ result.status = "COMPLETED"
    /\ result.phase = "SUCCEEDED"

\* C7: a teardown whose delete call met an empty response returns without
\* raising, having called delete once and made no existence check.
C7_EmptyResponseIsSuccess ==
    ( /\ TeardownRan
      /\ \E d \in CallsOf("delete") : calls[d].exc = "JSONDecodeError" )
    => /\ result.outcome = "return"
       /\ Cardinality(CallsOf("delete")) = 1
       /\ CallsOf("info") = {}

C7_Witness ==
    /\ TeardownRan
    /\ \E d \in CallsOf("delete") : calls[d].exc = "JSONDecodeError"
    /\ result.outcome = "return"

\* C8: a teardown on a handle without a remote id does nothing with the SDK
\* (no client, no cancel, delete or info call) and returns.
C8_NoIdNoCalls ==
    (result.op = "delete" /\ Falsy(meta.task_id)) =>
        (calls = <<>> /\ result.outcome = "return")

C8_Witness ==
    result.op = "delete" /\ meta.task_id = NoneVal /\ hist.teardowns = 1

\* the first teardown of a handle that create returned and nobody polled
TeardownRightAfterCreate ==
    TeardownRan /\ hist.created /\ hist.polls = 0 /\ hist.teardowns = 1

\* C9 as stated: create, then teardown with no poll in between: cancel and
\* delete are attempted and the teardown returns, whatever the calls do.
C9_ImmediateTeardown ==
    TeardownRightAfterCreate =>
        /\ CallsOf("cancel") # {}
        /\ CallsOf("delete") # {}
        /\ result.outcome = "return"

\* C9 amended: the same, for a create whose answer carried the status
\* QUEUED, LAUNCHED or RUNNING.
C9_ImmediateTeardownNonTerminal ==
    (TeardownRightAfterCreate /\ hist.create_status \in NonTerminalStatuses) =>
        /\ CallsOf("cancel") # {}
        /\ CallsOf("delete") # {}
        /\ result.outcome = "return"

C9_Witness ==
    /\ TeardownRightAfterCreate
    /\ hist.create_status = "QUEUED"
    /\ \E c \in CallsOf("cancel") : calls[c].exc = NotFoundError.type
    /\ \E d \in CallsOf("delete") : calls[d].exc = NotFoundError.type
    /\ \E i \in CallsOf("info") : calls[i].exc = NotFoundError.type
    /\ result.outcome = "return"

\* C10: when the submit call of a create fails, the create raises an error
\* whose message holds the message of the cause, and no handle comes back.
C10_SubmitFailureRaises ==
    \A i \in CallsOf("create") :
        calls[i].exc # "" =>
            /\ result.op = "create"
            /\ result.outcome = "raise"
            /\ calls[i].msg \in Pieces(result.message)
            /\ meta = NoHandle

C10_Witness ==
    /\ result.op = "create"
    /\ result.outcome = "raise"
    /\ \E i \in CallsOf("create") : calls[i].exc = TransportError.type

\* C11: a create that returns issued exactly one submit call, and the handle
\* it returns has the task id, status and created-at of the answer and the
\* credentials of the task template.
C11_CreateReturnsResponse ==
    (result.op = "create" /\ result.outcome = "return") =>
        /\ Cardinality(CallsOf("create")) = 1
        /\ meta.task_id = result.input.response.id
        /\ meta.status = result.input.response.status
        /\ meta.created_at = result.input.response.createdAt
        /\ meta.api_key = result.input.template.api_key
        /\ meta.org_name = result.input.template.org_name

C11_Witness ==
    /\ result.op = "create"
    /\ result.outcome = "return"
    /\ meta.task_id = "test-task-id"
    /\ meta.status = "LAUNCHED"
    /\ meta.api_key = "test-api-key"

\* the calls that go to the remote service
RemoteOps == {"create", "info", "cancel", "delete"}

\* C12: a create on a template without gpuSpecification raises, and issues
\* no submit call nor any other call to the remote service.
C12_NoGpuNoSubmit ==
    (result.op = "create" /\ result.input.template.gpuSpecification = NoGpu) =>
        /\ result.outcome = "raise"
        /\ \A i \in 1..Len(calls) : calls[i].op \notin RemoteOps
        /\ meta = NoHandle

C12_Witness ==
    /\ result.op = "create"
    /\ result.input.template.has_config
    /\ result.input.template.api_key = "test-api-key"
    /\ result.input.template.org_name = "test-org"
    /\ result.input.template.gpuSpecification = NoGpu
    /\ result.message = <<"GPU specification is required">>
    /\ calls # <<>>

C14_MissingPrecondition ==
    ( /\ result.op = "create"
      /\ \/ Falsy(result.input.template.api_key)
         \/ Falsy(result.input.template.org_name)
         \/ ~result.input.template.has_config )
    => /\ result.outcome = "raise"
       /\ result.exc_type = "ValueError"
       /\ calls = <<>>
       /\ meta = NoHandle

C14_Witness ==
    /\ result.op = "create"
    /\ result.input.template.api_key = "test-api-key"
    /\ result.input.template.org_name = NoneVal
    /\ result.input.template.has_config
    /\ result.outcome = "raise"

\* the message get returns when the info call raised e
TransportMessage(e) == <<"Unable to determine task status: ", str(e)>>

\* the last invocation was a get whose info call raised
PollInfoFailed == result.op = "get" /\ \E i \in CallsOf("info") : calls[i].exc # ""

\* C15: a poll on a handle without a remote id makes no call and returns an
\* outcome that no poll with a failed info call returns.
C15_NoIdPollIsLocal ==
    (result.op = "get" /\ Falsy(meta.task_id)) =>
        /\ calls = <<>>
        /\ result.outcome = "return"
        /\ result.message = <<"Task ID is missing in resource metadata">>
        /\ \A e \in RemoteErrors :
            <<result.phase, result.message>> # <<"FAILED", TransportMessage(e)>>

C15_Witness ==
    result.op = "get" /\ meta.task_id = "" /\ result.phase = "UNDEFINED"

\* C16: a poll that reports FAILED says why: after an info call that raised,
\* the message is the transport message with the text of the cause; after
\* one that answered a failed status, it is a message about the task; the
\* first form is used for a failed info call only.
C16_FailedMessageTellsCause ==
    (result.op = "get" /\ result.phase = "FAILED") =>
        /\ PollInfoFailed =>
            \E i \in CallsOf("info") : result.message = <<TransportMessage(NoError)[1], calls[i].msg>>
        /\ ~PollInfoFailed =>
            /\ result.status \in FailedStatuses
            /\ result.message \in {<<"Task execution failed">>, <<result.status>>}
        /\ (result.message[1] = TransportMessage(NoError)[1]) <=> PollInfoFailed

C16_Witness ==
    /\ PollInfoFailed
    /\ result.phase = "FAILED"
    /\ result.message = TransportMessage(TransportError)

\* C17 as stated: a poll whose info call raised raises to its caller.
C17_PollFailureRaises ==
    PollInfoFailed => result.outcome = "raise"

\* C17 amended: a poll whose info call raised returns a Resource of phase
\* FAILED whose message holds the text of the cause; it raises nothing.
C17_PollFailureReturnsFailed ==
    PollInfoFailed =>
        /\ result.outcome = "return"
        /\ result.phase = "FAILED"
        /\ \A i \in CallsOf("info") :
            /\ calls[i].msg \in Pieces(result.message)
            /\ result.exc_type = calls[i].exc

C17_Witness ==
    PollInfoFailed /\ result.phase = "FAILED" /\ result.exc_type = NotFoundError.type

\* C18: every call to the remote service made by create, get and delete is
\* awaited through the executor, off the thread of the event loop.
C18_AllCallsOnWorker ==
    \A i \in 1..Len(calls) : calls[i].op \in RemoteOps => calls[i].executor

\* C19: a teardown ends, having issued at most one cancel, one delete and
\* one existence check, the check only after a delete that failed.
C19_TeardownIsBounded ==
    result.op = "delete" =>
        /\ result.outcome \in {"return", "raise"}
        /\ Cardinality(CallsOf("cancel")) <= 1
        /\ Cardinality(CallsOf("delete")) <= 1
        /\ Cardinality(CallsOf("info")) <= 1
        /\ \A i \in CallsOf("info") :
            \E d \in CallsOf("delete") :
                d < i /\ calls[d].exc \notin {"", "JSONDecodeError"}

C19_Witness ==
    /\ result.op = "delete"
    /\ Cardinality(CallsOf("cancel")) = 1
    /\ Cardinality(CallsOf("delete")) = 1
    /\ Cardinality(CallsOf("info")) = 1
    /\ hist.teardowns = 2

\* C20: the mapping returns rank 1 for LAUNCHED, 2 for RUNNING and 0 for
\* every other status.
C20_TieBreakRank ==
    result.op = "map" =>
        result.rank = (IF result.status = "LAUNCHED" THEN 1
                       ELSE IF result.status = "RUNNING" THEN 2 ELSE 0)

\* the last invocation was an nvcf_task call that returned a task
TaskBuilt == result.op = "nvcf_task" /\ result.outcome = "return"

\* C21: building a configuration without api key, without org name, or with
\* strategy UPLOAD and no results location raises a ValueError whose message
\* names a thing that is missing, and no configuration exists.
C21_ConstructionFailsFast ==
    LET a == result.input.args
    IN ( /\ result.op = "nvcf_task"
         /\ \/ Falsy(a.api_key)
            \/ Falsy(a.org_name)
            \/ a.result_handling_strategy = "UPLOAD" /\ Falsy(a.results_location) )
       => /\ result.outcome = "raise"
          /\ result.exc_type = "ValueError"
          /\ result.input.template = NoTemplate
          /\ \/ /\ result.message = <<"NVCF API key is required">>
                /\ Falsy(a.api_key)
             \/ /\ result.message = <<"NGC organization name is required">>
                /\ Falsy(a.org_name)
             \/ /\ result.message =
                       <<"results_location is required when result_handling_strategy is UPLOAD">>
                /\ a.result_handling_strategy = "UPLOAD"
                /\ Falsy(a.results_location)

C21_Witness ==
    /\ result.op = "nvcf_task"
    /\ result.input.args.api_key = NoneVal
    /\ result.input.args.org_name = "test-org"
    /\ result.input.args.results_location = "test-org/test-results"
    /\ result.message = <<"NVCF API key is required">>

\* C22: a configuration, and a create, whose gpu specification has only some
\* of gpu, instanceType and backend is rejected; what is accepted has all
\* three.
C22_GpuAllOrNothing ==
    /\ (result.op = "nvcf_task" /\ result.input.args.gpu_specification = PartialGpu)
           => result.outcome = "raise"
    /\ (result.op = "create" /\ result.input.template.gpuSpecification = PartialGpu)
           => result.outcome = "raise"
    /\ TaskBuilt => result.input.args.gpu_specification = FullGpu

\* C23: the wire record of a built configuration has camelCase keys only and
\* no key whose value is None.
C23_WireRecordHasNoNull ==
    TaskBuilt =>
        LET w == result.input.template.nvcf_config
        IN /\ DOMAIN w \subseteq DOMAIN WireKeys
           /\ \A k \in DOMAIN w \ {"gpuSpecification"} : w[k] # NoneVal

\* C24: a configuration built with the durations left out has
\* maxQueuedDuration PT6H, terminationGracePeriodDuration PT15M and no
\* maxRuntimeDuration in its wire record.
C24_DurationDefaults ==
    ( /\ TaskBuilt
      /\ result.input.args.max_runtime_duration = Omitted
      /\ result.input.args.max_queued_duration = Omitted
      /\ result.input.args.termination_grace_period_duration = Omitted )
    => LET w == result.input.template.nvcf_config
       IN /\ w["maxQueuedDuration"] = "PT6H"
          /\ w["terminationGracePeriodDuration"] = "PT15M"
          /\ "maxRuntimeDuration" \notin DOMAIN w

C24_Witness ==
    /\ TaskBuilt
    /\ result.input.args.max_runtime_duration = Omitted
    /\ result.input.args.max_queued_duration = Omitted
    /\ result.input.args.termination_grace_period_duration = Omitted
    /\ result.input.args.gpu_specification = FullGpu

C26_PollHasOneLogLink ==
    (PollSucceeded /\ ~Falsy(meta.task_id)) =>
        /\ Len(result.log_links) = 1
        /\ result.message # <<>>

\* the phases tests/test_agent.py expects for lower-case status names
LowerCasePhases ==
    [launched |-> "RUNNING", running |-> "RUNNING", completed |-> "SUCCEEDED",
     errored |-> "FAILED", exceeded_max_runtime_duration |-> "FAILED",
     queued |-> "INITIALIZING", unknown |-> "INITIALIZING"]

\* C27: the mapping gives lower-case status names the phases launched and
\* running -> RUNNING, completed -> SUCCEEDED, errored and
\* exceeded_max_runtime_duration -> FAILED, queued and unknown -> INITIALIZING.
C27_LowerCaseMapping ==
    (result.op = "map" /\ result.status \in DOMAIN LowerCasePhases) =>
        result.phase = LowerCasePhases[result.status]

\* C28: the mapping gives the canceled status the phase FAILED.
C28_CanceledMapsToFailed ==
    (result.op = "map" /\ result.status \in {"CANCELED", "canceled"}) =>
        result.phase = "FAILED"

C30_NoInternalRetry ==
    /\ result.op = "create" => Cardinality(CallsOf("create")) <= 1
    /\ result.op = "get" => Cardinality(CallsOf("info")) <= 1
    /\ \A i, j \in 1..Len(calls) :
        (i < j /\ calls[i].exc # "") =>
            ~(calls[j].op = calls[i].op /\ calls[j].arg = calls[i].arg)

C30_Witness ==
    /\ result.op = "create"
    /\ result.outcome = "raise"
    /\ Cardinality(CallsOf("create")) = 1
    /\ \E i \in CallsOf("create") : calls[i].exc = TransportError.type

\* ---- C31: whenever teardown attempts a cancel, whether the cancel returns
\* or raises, it waits the fixed interval after the cancel and before the
\* delete; the delete never follows a cancel directly
C31_WaitAfterEveryCancel ==
    result.op = "delete" =>
        \A i \in 1..Len(calls) :
            calls[i].op = "cancel" =>
                /\ i + 2 <= Len(calls)
                /\ calls[i + 1] = Sleep
                /\ calls[i + 2].op = "delete"

\* C31 as the code has it: teardown waits the fixed interval (2 seconds)
\* between a cancel that returned and the delete; after a cancel that raised
\* the delete follows at once, without a wait
C31_WaitAfterReturnedCancel ==
    result.op = "delete" =>
        \A i \in 1..Len(calls) :
            calls[i].op = "cancel" =>
                /\ i + 1 <= Len(calls)
                /\ IF calls[i].exc = ""
                   THEN /\ calls[i + 1] = Sleep
                        /\ i + 2 <= Len(calls)
                        /\ calls[i + 2].op = "delete"
                   ELSE calls[i + 1].op = "delete"

C31_Witness ==
    /\ result.op = "delete"
    /\ Len(calls) = 4
    /\ calls[2].op = "cancel" /\ calls[2].exc = ""
    /\ calls[3] = Sleep
    /\ calls[4].op = "delete"
    /\ hist.teardowns = 2

\* ---- C32: teardown is idempotent for the caller: a second teardown of a
\* handle whose remote task an earlier teardown already removed returns
\* without raising and leaves the task absent
C32_SecondTeardownReturns ==
    [][ (/\ hist'.teardowns = hist.teardowns + 1
         /\ hist.teardowns >= 1
         /\ remote = Absent)
        => (/\ result'.op = "delete"
            /\ result'.outcome = "return"
            /\ remote' = Absent) ]_vars

C32_Witness ==
    /\ hist.teardowns = 2
    /\ hist.created
    /\ remote = Absent
    /\ result.op = "delete" /\ result.outcome = "return"
    /\ \E i \in 1..Len(calls) :
          calls[i].op = "delete" /\ calls[i].exc = NotFoundError.type
    /\ \E i \in 1..Len(calls) :
          calls[i].op = "info" /\ calls[i].exc = NotFoundError.type

C34_HandleNeverRepointed ==
    [][ meta # NoHandle =>
          /\ meta'.task_id = meta.task_id
          /\ meta'.api_key = meta.api_key
          /\ meta'.org_name = meta.org_name
          /\ \A i \in 1..Len(calls') :
                /\ calls'[i].op \in {"info", "cancel", "delete"}
                       => calls'[i].arg = meta.task_id
                /\ calls'[i].op = "connect" => calls'[i].arg = meta.api_key ]_vars

\* a handle that create returned, polled, updated and torn down
C34_Witness ==
    /\ hist.created
    /\ ~Falsy(meta.task_id)
    /\ meta.last_updated_at # NoneVal
    /\ meta.status # hist.create_status
    /\ hist.polls >= 1
    /\ result.op = "delete"
    /\ \E i \in 1..Len(calls) : calls[i].op = "delete" /\ calls[i].arg = meta.task_id

\* a duration of template t is a string that is no ISO-8601 duration
MalformedDuration(t) ==
    \E d \in {t.maxRuntimeDuration, t.maxQueuedDuration,
               t.terminationGracePeriodDuration} :
        d # NoneVal /\ ~WellFormedDuration(d)

\* ---- C35: a malformed ISO-8601 string in one of the three durations of
\* the template makes create raise while it translates the template, before
\* any submit call and with no handle; in a template that is complete
\* otherwise the exception is the parser's, naming the duration as the
\* cause, never a default or a dropped duration
C35_MalformedDurationFails ==
    (result.op = "create" /\ MalformedDuration(result.input.template)) =>
        /\ result.outcome = "raise"
        /\ \A i \in 1..Len(calls) : calls[i].op \notin RemoteOps
        /\ meta = NoHandle
        /\ ( /\ _get_metadata(result.input.template) = NoError
             /\ result.input.template.gpuSpecification # NoGpu )
           => /\ result.exc_type = "ISO8601Error"
              /\ result.message = <<"Unable to parse duration string">>

\* what the call op of the last invocation raised (NoError: it returned, or
\* was not made)
OutOf(op) ==
    IF \E i \in 1..Len(calls) : calls[i].op = op
    THEN LET k == CHOOSE i \in 1..Len(calls) : calls[i].op = op
         IN [type |-> calls[k].exc, msg |-> calls[k].msg]
    ELSE NoError

\* the same handle, or template, with another API key
OtherKey(m) ==
    IF Falsy(m.api_key) THEN m ELSE [m EXCEPT !.api_key = "other-api-key"]

\* the same template with another API key and other secret values
OtherSecrets(t) ==
    IF t.has_config
    THEN [OtherKey(t) EXCEPT !.secrets = <<[name |-> "NGC_API_KEY",
                                           value |-> "other-secret-value"]>>]
    ELSE OtherKey(t)

\* the pieces of the messages of the log records l
LogPieces(l) ==
    UNION { { l[i].msg[j] : j \in 1..Len(l[i].msg) } : i \in 1..Len(l) }

\* ---- C36: no log record of create, get or delete and no repr of the
\* metadata holds the API key or a secret value: the invocation given
\* another API key and other secret values, and the same answers of the
\* service, logs the same records, and the repr of the handle is the same
C36_LogsHoldNoSecret ==
    /\ result.op = "create" =>
          /\ result.log = CreateLog(OtherSecrets(result.input.template), OutOf("create"),
                                    result.input.response)
          /\ result.input.template.api_key
                \notin LogPieces(result.log) \cup Pieces(result.message)
          /\ result.input.template.has_config =>
                \A k \in 1..Len(result.input.template.secrets) :
                    result.input.template.secrets[k].value
                        \notin LogPieces(result.log) \cup Pieces(result.message)
    /\ result.op = "get" =>
          /\ result.log = GetLog(OtherKey(meta), OutOf("info"), result.status)
          /\ meta.api_key \notin LogPieces(result.log) \cup Pieces(result.message)
    /\ result.op = "delete" =>
          /\ result.log = DeleteLog(OtherKey(meta), OutOf("cancel"), OutOf("delete"),
                                    OutOf("info"))
          /\ meta.api_key \notin LogPieces(result.log) \cup Pieces(result.message)
    /\ meta # NoHandle =>
          /\ NVCFMetadata_repr(meta) = NVCFMetadata_repr(OtherKey(meta))
          /\ "api_key" \notin DOMAIN NVCFMetadata_repr(meta)

\* a create with an API key and a secret that submitted and logged, and the
\* handle it returned
C36_Witness ==
    /\ result.op = "create" /\ result.outcome = "return"
    /\ result.input.template.api_key = "test-api-key"
    /\ result.input.template.secrets = TestSecrets
    /\ result.log = <<Log("INFO", <<"Created NVCF task with ID: ", meta.task_id>>)>>
    /\ meta.api_key = "test-api-key"

TerminalStatuses == {"COMPLETED", "CANCELED"} \cup FailedStatuses

\* ---- C38: a get reports a terminal phase (SUCCEEDED, FAILED, ABORTED)
\* only when the status of the remote task is terminal at that get:
\* SUCCEEDED only when its info call answered COMPLETED, and no outcome of
\* a get, a failed info call included, says the task has ended while the
\* task is QUEUED, LAUNCHED or RUNNING
C38_TerminalOnlyIfRemoteTerminal ==
    [][ hist'.polls = hist.polls + 1 =>
          /\ result'.phase \in {"SUCCEEDED", "FAILED", "ABORTED"}
                => remote \in TerminalStatuses
          /\ result'.phase = "SUCCEEDED"
                => (remote = "COMPLETED" /\ result'.status = "COMPLETED") ]_vars

\* C38 as the code has it: a get reports SUCCEEDED only when its info call
\* answered COMPLETED and ABORTED only when it answered CANCELED; it
\* reports FAILED when the info call answered a failed status or when the
\* info call raised, whatever the status of the remote task then is; an
\* info call that answered QUEUED, LAUNCHED or RUNNING gives a phase that
\* is not terminal
C38_TerminalFromAnswerOrFailure ==
    [][ hist'.polls = hist.polls + 1 =>
          /\ result'.phase = "SUCCEEDED"
                => (remote = "COMPLETED" /\ result'.status = "COMPLETED")
          /\ result'.phase = "ABORTED"
                => (remote = "CANCELED" /\ result'.status = "CANCELED")
          /\ result'.phase = "FAILED"
                => \/ (remote \in FailedStatuses /\ result'.status = remote)
                   \/ /\ result'.status = NoneVal
                      /\ \E i \in 1..Len(calls') :
                            calls'[i].op = "info" /\ calls'[i].exc # ""
          /\ (remote \in NonTerminalStatuses /\ result'.status # NoneVal)
                => result'.phase \in {"QUEUED", "RUNNING"} ]_vars

\* a get of a running task whose info call failed in transport
C38_Witness ==
    /\ result.op = "get"
    /\ result.phase = "FAILED"
    /\ result.exc_type = TransportError.type
    /\ remote = "RUNNING"
    /\ hist.polls = 1 /\ hist.teardowns = 0
    /\ meta.status = "RUNNING"

\* ---- C39: the handle create returns carries the base URL of the task
\* template (the base_url that get_custom emitted), not the credentials alone
C39_HandleCarriesBaseUrl ==
    (result.op = "create" /\ result.outcome = "return") =>
        /\ meta.api_key = result.input.template.api_key
        /\ meta.org_name = result.input.template.org_name
        /\ meta.base_url = result.input.template.base_url

Spec == Init /\ [][Next]_vars

SpecHeld == InitHeld /\ [][NextHeld]_vars

SpecTwo == InitTwo /\ [][NextTwo]_vars
====
